---------------------------- MODULE Spec2Model ----------------------------
(***************************************************************************)
(* The Item CRUD service of api/app: the request handlers of main.py, the  *)
(* scoped session of database.py (get_db) over the engine's connection     *)
(* pool, and the items table of models.py.                                 *)
(*                                                                         *)
(* Each request is a process that runs its handler statement by statement: *)
(* every statement that goes to the store is one step, so requests of      *)
(* different sessions interleave between their statements.  A session      *)
(* checks a connection out of the pool at its first statement, gives it    *)
(* back at commit or rollback, and get_db's finally closes it.  The INSERT  *)
(* of a flush and the COMMIT after it are two steps: the INSERT draws the   *)
(* id from the sequence at once, the row is visible to others at COMMIT.    *)
(***************************************************************************)
EXTENDS Integers, Sequences, FiniteSets

\* ------------------------------------------------------------- bounds
NumReq   == 2      \* requests in flight at once (Spec)
MaxId    == 2      \* INSERTs the store is asked for with NumReq requests in flight
MaxItems == 3      \* INSERTs the store is asked for with one request at a time
MaxPoolItems == 1  \* INSERTs the store is asked for while the pool is loaded
MaxSkip  == 2      \* largest skip a list request carries
MaxLimit == 2      \* largest limit a list request carries
MaxTime  == 2      \* readings of the store's clock (func.now())

\* ------------------------------------------------- program constants
pool_size    == 5
max_overflow == 10

Null == "<null>"                       \* Python None / SQL NULL / absent field

VARIABLES
  pc,        \* pc[r]: where request r is in its handler
  op,        \* op[r]: the handler request r was routed to
  arg,       \* arg[r]: the request's parameters
  conn,      \* conn[r]: r's session holds a pooled connection
  db_item,   \* db_item[r]: id of the Item create_item's session persisted (0: none)
  resp,      \* resp[r]: the response the handler produced
  fault,     \* fault[r]: "none", "store" (a statement failed), "pool" (checkout timed out)
  table,     \* the committed rows of items, in the store's order
  inserted,  \* inserted[r]: the row r's transaction has inserted, not yet committed
  nextId,    \* the next value of the items id sequence
  bgHeld,    \* connections checked out by other clients' read requests
  issued,    \* ids the 201 responses have carried
  confirmed, \* ids for which a delete_item returned its confirmation
  budget     \* how many ids the sequence hands out in this run (a bound)

vars == <<pc, op, arg, conn, db_item, resp, fault, table, inserted, nextId,
          bgHeld, issued, confirmed, budget>>

\* ------------------------------------------------------------ helpers
Ids(t) == {t[k].id : k \in 1..Len(t)}

\* Variant: the filter on the id is lost, first() gets the first row.
MatchingFirst(t, i) == t

\* db.query(Item).filter(Item.id == item_id).first(): the rows with that id.
Matching(t, i) == SelectSeq(t, LAMBDA row : row.id = i)

\* ------------------------------------------------------------ responses
NoResp == [code |-> 0, detail |-> "", message |-> "", items |-> <<>>,
           status |-> "", database |-> ""]

HTTPException(c, d) == [NoResp EXCEPT !.code = c, !.detail = d]

\* ItemResponse (from_attributes): id, name, description, created_at.
ItemResponse(row) ==
  [id |-> row.id, name |-> row.name, description |-> row.description,
   created_at |-> row.created_at]

Ok(c, rows) == [NoResp EXCEPT !.code = c, !.items = rows]

\* ------------------------------------------------------------ the pool
\* create_engine(pool_size=5, max_overflow=10): the pool hands out at most
\* pool_size + max_overflow connections at a time.
Capacity == pool_size + max_overflow

Checkedout == Cardinality({r \in DOMAIN conn : conn[r]}) + bgHeld

\* Variant: the pool lets one checkout too many through.
CanCheckoutOffByOne == Checkedout <= Capacity

CanCheckout == Checkedout < Capacity

\* A statement of r's session runs on the connection the session already
\* holds, or on one it checks out now; with none free it waits.
HasConnection(r) == conn[r] \/ CanCheckout

\* ------------------------------------------------------------ the store
\* Variant: the id is one more than the largest id in the table (a rowid),
\* so the id of a deleted last row is handed out again.
NextValReuse(t, seq) ==
  IF t = <<>> THEN 1
  ELSE 1 + CHOOSE m \in {t[k].id : k \in 1..Len(t)} :
             \A k \in 1..Len(t) : t[k].id <= m

\* The id column: an Integer primary key, filled from the table's sequence,
\* which only moves forward.
NextVal(t, seq) == seq

\* INSERT INTO items: id from the sequence, both timestamps from the
\* server default func.now().
NewRow(i, item, now) ==
  [id |-> i, name |-> item.name, description |-> item.description,
   created_at |-> now, updated_at |-> now]

\* No row (a transaction that has inserted nothing).
NoRow == [id |-> 0, name |-> Null, description |-> Null,
          created_at |-> 0, updated_at |-> 0]

\* COMMIT of an inserted row: it becomes visible at the place in the heap the
\* INSERT gave it, after the rows inserted before it and before those
\* inserted after it.
Publish(t, row) ==
  SelectSeq(t, LAMBDA x : x.id < row.id) \o <<row>>
    \o SelectSeq(t, LAMBDA x : x.id > row.id)

\* Variant: a soft delete, the row stays.
DeleteRowSoft(t, i) == t

\* DELETE FROM items WHERE id = i (zero matched rows is not an error).
DeleteRow(t, i) == SelectSeq(t, LAMBDA row : row.id # i)

\* OFFSET n: the sequence without its first n rows.
RECURSIVE Offset(_, _)
Offset(t, n) == IF n <= 0 \/ t = <<>> THEN t ELSE Offset(Tail(t), n - 1)

\* LIMIT n: the first n rows of the sequence.
RECURSIVE Limit(_, _)
Limit(t, n) ==
  IF n <= 0 \/ t = <<>> THEN <<>> ELSE <<Head(t)>> \o Limit(Tail(t), n - 1)

RECURSIVE Map(_)
Map(t) == IF t = <<>> THEN <<>> ELSE <<ItemResponse(Head(t))>> \o Map(Tail(t))

\* Variant: skip is taken as the 1-based position before the page.
PageOffByOne(t, skip, limit) == Limit(Offset(t, skip + 1), limit)

\* db.query(models.Item).offset(skip).limit(limit).all()
Page(t, skip, limit) == Limit(Offset(t, skip), limit)

\* ------------------------------------------------------------ requests
NoArg == [name |-> Null, description |-> Null, item_id |-> 0,
          skip |-> 0, limit |-> 0]

\* ItemCreate bodies: name absent, empty or set; description absent or set.
CreateInputs ==
  { [NoArg EXCEPT !.name = Null],
    [NoArg EXCEPT !.name = ""],
    [NoArg EXCEPT !.name = "widget"],
    [NoArg EXCEPT !.name = "widget", !.description = "text"] }

\* ItemCreate: name is a required str, description an optional str.
Valid(item) == item.name # Null

Times == 1..MaxTime

Creating == Cardinality({r \in DOMAIN pc : pc[r] = "flush"})

\* The except clause of each handler: what it answers ...
ExceptResponse(o) ==
  CASE o = "health_check" ->
         [NoResp EXCEPT !.code = 200, !.status = "healthy",
                        !.database = "disconnected"]
    [] o = "create_item" -> HTTPException(500, "Failed to create item")
    [] o = "list_items"  -> HTTPException(500, "Failed to fetch items")
    [] o = "get_item"    -> HTTPException(500, "Failed to fetch item")
    [] o = "delete_item" -> HTTPException(500, "Failed to delete item")

\* ... and whether it calls db.rollback(), which gives the connection back.
ExceptRollback(o) == o \in {"create_item", "delete_item"}

\* An exception of kind k reaches r's except clause; held: whether the
\* failed statement had a connection.
Raise(r, k, held) ==
  /\ resp' = [resp EXCEPT ![r] = ExceptResponse(op[r])]
  /\ conn' = [conn EXCEPT ![r] = IF ExceptRollback(op[r]) THEN FALSE ELSE held]
  /\ fault' = [fault EXCEPT ![r] = k]
  /\ pc' = [pc EXCEPT ![r] = "close"]

\* ------------------------------------------------------------ initial state
\* Process start: create_all has made an empty items table, the pool has
\* handed out nothing, and n request slots are idle.
Start0(n, b) ==
  /\ budget = b
  /\ pc = [r \in 1..n |-> "idle"]
  /\ op = [r \in 1..n |-> "none"]
  /\ arg = [r \in 1..n |-> NoArg]
  /\ conn = [r \in 1..n |-> FALSE]
  /\ db_item = [r \in 1..n |-> 0]
  /\ resp = [r \in 1..n |-> NoResp]
  /\ fault = [r \in 1..n |-> "none"]
  /\ table = <<>>
  /\ inserted = [r \in 1..n |-> NoRow]
  /\ nextId = 1
  /\ bgHeld = 0
  /\ issued = {}
  /\ confirmed = {}

\* ------------------------------------------------------------ actions
\* A request arrives: FastAPI resolves Depends(get_db) (SessionLocal(), no
\* connection yet), validates the parameters and calls the handler; a body
\* that fails ItemCreate is answered 422 without the handler running.
Start(r, o, a, first) ==
  /\ pc[r] = "idle"
  /\ op' = [op EXCEPT ![r] = o]
  /\ arg' = [arg EXCEPT ![r] = a]
  /\ pc' = [pc EXCEPT ![r] = first]
  /\ UNCHANGED <<conn, db_item, fault, table, inserted, nextId, bgHeld, issued, confirmed, budget>>

Request(r) ==
  \/ Start(r, "health_check", NoArg, "probe") /\ UNCHANGED resp
  \/ \E item \in CreateInputs :
       /\ nextId + Creating <= budget
       /\ Start(r, "create_item", item, IF Valid(item) THEN "flush" ELSE "close")
       /\ resp' = [resp EXCEPT ![r] =
                     IF Valid(item) THEN NoResp
                     ELSE HTTPException(422, "Field required")]
  \/ \E s \in 0..MaxSkip, l \in 0..MaxLimit :
       /\ Start(r, "list_items", [NoArg EXCEPT !.skip = s, !.limit = l], "query")
       /\ UNCHANGED resp
  \/ \E i \in 1..budget, o \in {"get_item", "delete_item"} :
       /\ Start(r, o, [NoArg EXCEPT !.item_id = i], "lookup")
       /\ UNCHANGED resp

\* health_check: db.execute("SELECT 1") inside try/except, then the body.
\* Here and in list_items and get_item the statement fails either at the
\* checkout (store unreachable: the session gets no connection) or on the
\* connection, which then stays with the session until it is closed.
health_check(r) ==
  /\ pc[r] = "probe"
  /\ HasConnection(r)
  /\ \E out \in {"ok", "unreachable", "failed"} :
       IF out = "ok"
       THEN /\ resp' = [resp EXCEPT ![r] =
                          [NoResp EXCEPT !.code = 200, !.status = "healthy",
                                         !.database = "connected"]]
            /\ conn' = [conn EXCEPT ![r] = TRUE]
            /\ pc' = [pc EXCEPT ![r] = "close"]
            /\ UNCHANGED fault
       ELSE Raise(r, "store", out = "failed")
  /\ UNCHANGED <<op, arg, db_item, table, inserted, nextId, bgHeld, issued, confirmed, budget>>

\* create_item up to the flush of db.commit(): models.Item(...), db.add, and
\* the INSERT, which draws the id from the sequence and sets db_item.id.  A
\* failure either comes before the INSERT ran or after it drew its id.
create_item_flush(r) ==
  /\ pc[r] = "flush"
  /\ HasConnection(r)
  /\ \E out \in {"ok", "unreachable", "aborted"}, now \in Times :
       /\ nextId' = IF out = "unreachable" THEN nextId ELSE nextId + 1
       /\ IF out = "ok"
          THEN /\ inserted' = [inserted EXCEPT ![r] =
                                NewRow(NextVal(table, nextId), arg[r], now)]
               /\ db_item' = [db_item EXCEPT ![r] = NextVal(table, nextId)]
               /\ conn' = [conn EXCEPT ![r] = TRUE]
               /\ pc' = [pc EXCEPT ![r] = "commit"]
               /\ UNCHANGED <<resp, fault>>
          ELSE /\ Raise(r, "store", TRUE)
               /\ UNCHANGED <<inserted, db_item>>
  /\ UNCHANGED <<op, arg, table, bgHeld, issued, confirmed, budget>>

\* create_item, the COMMIT of db.commit(): the inserted row becomes visible
\* and the connection goes back; on a failure the except clause rolls back
\* and the row is gone, its id stays drawn.
create_item_commit(r) ==
  /\ pc[r] = "commit" /\ op[r] = "create_item"
  /\ \E ok \in BOOLEAN :
       IF ok
       THEN /\ table' = Publish(table, inserted[r])
            /\ conn' = [conn EXCEPT ![r] = FALSE]
            /\ pc' = [pc EXCEPT ![r] = "refresh"]
            /\ UNCHANGED <<resp, fault>>
       ELSE /\ Raise(r, "store", TRUE)
            /\ UNCHANGED table
  /\ inserted' = [inserted EXCEPT ![r] = NoRow]
  /\ UNCHANGED <<op, arg, db_item, nextId, bgHeld, issued, confirmed, budget>>

\* create_item from db.refresh(db_item) to return: the SELECT of the row by
\* its primary key; a row that is gone makes refresh raise.
create_item_refresh(r) ==
  /\ pc[r] = "refresh"
  /\ HasConnection(r)
  /\ \E ok \in BOOLEAN :
       LET found == Matching(table, db_item[r]) IN
       IF ok /\ found # <<>>
       THEN /\ resp' = [resp EXCEPT ![r] = Ok(201, <<ItemResponse(found[1])>>)]
            /\ issued' = issued \cup {found[1].id}
            /\ conn' = [conn EXCEPT ![r] = TRUE]
            /\ pc' = [pc EXCEPT ![r] = "close"]
            /\ UNCHANGED fault
       ELSE /\ Raise(r, "store", TRUE)
            /\ UNCHANGED issued
  /\ UNCHANGED <<op, arg, db_item, table, inserted, nextId, bgHeld, confirmed, budget>>

\* list_items: one SELECT with OFFSET and LIMIT.
list_items(r) ==
  /\ pc[r] = "query"
  /\ HasConnection(r)
  /\ \E out \in {"ok", "unreachable", "failed"} :
       IF out = "ok"
       THEN /\ resp' = [resp EXCEPT ![r] =
                          Ok(200, Map(Page(table, arg[r].skip, arg[r].limit)))]
            /\ conn' = [conn EXCEPT ![r] = TRUE]
            /\ pc' = [pc EXCEPT ![r] = "close"]
            /\ UNCHANGED fault
       ELSE Raise(r, "store", out = "failed")
  /\ UNCHANGED <<op, arg, db_item, table, inserted, nextId, bgHeld, issued, confirmed, budget>>

\* get_item: the lookup, 404 when there is no row.
get_item(r) ==
  /\ pc[r] = "lookup" /\ op[r] = "get_item"
  /\ HasConnection(r)
  /\ \E out \in {"ok", "unreachable", "failed"} :
       LET found == Matching(table, arg[r].item_id) IN
       IF out = "ok"
       THEN /\ resp' = [resp EXCEPT ![r] =
                          IF found = <<>>
                          THEN HTTPException(404, "Item not found")
                          ELSE Ok(200, <<ItemResponse(found[1])>>)]
            /\ conn' = [conn EXCEPT ![r] = TRUE]
            /\ pc' = [pc EXCEPT ![r] = "close"]
            /\ UNCHANGED fault
       ELSE Raise(r, "store", out = "failed")
  /\ UNCHANGED <<op, arg, db_item, table, inserted, nextId, bgHeld, issued, confirmed, budget>>

\* delete_item, the lookup: 404 when there is no row, else on to the delete.
delete_item_lookup(r) ==
  /\ pc[r] = "lookup" /\ op[r] = "delete_item"
  /\ HasConnection(r)
  /\ \E ok \in BOOLEAN :
       LET found == Matching(table, arg[r].item_id) IN
       IF ok
       THEN /\ resp' = [resp EXCEPT ![r] =
                          IF found = <<>>
                          THEN HTTPException(404, "Item not found")
                          ELSE NoResp]
            /\ conn' = [conn EXCEPT ![r] = TRUE]
            /\ pc' = [pc EXCEPT ![r] = IF found = <<>> THEN "close" ELSE "commit"]
            /\ UNCHANGED fault
       ELSE Raise(r, "store", TRUE)
  /\ UNCHANGED <<op, arg, db_item, table, inserted, nextId, bgHeld, issued, confirmed, budget>>

\* Variant: a DELETE that matches no row raises (StaleDataError), so the
\* except clause answers 500.
delete_item_commit_stale(r) ==
  /\ pc[r] = "commit" /\ op[r] = "delete_item"
  /\ HasConnection(r)
  /\ \E ok \in BOOLEAN :
       IF ok /\ Matching(table, arg[r].item_id) # <<>>
       THEN /\ table' = DeleteRow(table, arg[r].item_id)
            /\ resp' = [resp EXCEPT ![r] =
                          [NoResp EXCEPT !.code = 200,
                                         !.message = "Item deleted successfully"]]
            /\ confirmed' = confirmed \cup {arg[r].item_id}
            /\ conn' = [conn EXCEPT ![r] = FALSE]
            /\ pc' = [pc EXCEPT ![r] = "close"]
            /\ UNCHANGED fault
       ELSE /\ Raise(r, IF ok THEN "stale" ELSE "store", TRUE)
            /\ UNCHANGED <<table, confirmed>>
  /\ UNCHANGED <<op, arg, db_item, inserted, nextId, bgHeld, issued, budget>>

\* delete_item from db.delete(item) to return: the flush (DELETE by primary
\* key) and COMMIT, on the connection the lookup left with the session.
delete_item_commit(r) ==
  /\ pc[r] = "commit" /\ op[r] = "delete_item"
  /\ HasConnection(r)
  /\ \E ok \in BOOLEAN :
       IF ok
       THEN /\ table' = DeleteRow(table, arg[r].item_id)
            /\ resp' = [resp EXCEPT ![r] =
                          [NoResp EXCEPT !.code = 200,
                                         !.message = "Item deleted successfully"]]
            /\ confirmed' = confirmed \cup {arg[r].item_id}
            /\ conn' = [conn EXCEPT ![r] = FALSE]
            /\ pc' = [pc EXCEPT ![r] = "close"]
            /\ UNCHANGED fault
       ELSE /\ Raise(r, "store", TRUE)
            /\ UNCHANGED <<table, confirmed>>
  /\ UNCHANGED <<op, arg, db_item, inserted, nextId, bgHeld, issued, budget>>

\* Variant: no finally, db.close() runs only when the handler did not raise.
get_db_close_leak(r) ==
  /\ pc[r] = "close"
  /\ conn' = [conn EXCEPT ![r] = conn[r] /\ resp[r].code >= 400]
  /\ pc' = [pc EXCEPT ![r] = "idle"]
  /\ op' = [op EXCEPT ![r] = "none"]
  /\ arg' = [arg EXCEPT ![r] = NoArg]
  /\ db_item' = [db_item EXCEPT ![r] = 0]
  /\ resp' = [resp EXCEPT ![r] = NoResp]
  /\ fault' = [fault EXCEPT ![r] = "none"]
  /\ UNCHANGED <<table, inserted, nextId, bgHeld, issued, confirmed, budget>>

\* get_db's finally: db.close() gives back whatever the session holds; the
\* request is over and the slot takes the next one.
get_db_close(r) ==
  /\ pc[r] = "close"
  /\ conn' = [conn EXCEPT ![r] = FALSE]
  /\ pc' = [pc EXCEPT ![r] = "idle"]
  /\ op' = [op EXCEPT ![r] = "none"]
  /\ arg' = [arg EXCEPT ![r] = NoArg]
  /\ db_item' = [db_item EXCEPT ![r] = 0]
  /\ resp' = [resp EXCEPT ![r] = NoResp]
  /\ fault' = [fault EXCEPT ![r] = "none"]
  /\ UNCHANGED <<table, inserted, nextId, bgHeld, issued, confirmed, budget>>

Next ==
  \/ \E r \in DOMAIN pc : Request(r)
  \/ \E r \in DOMAIN pc : health_check(r)
  \/ \E r \in DOMAIN pc : create_item_flush(r)
  \/ \E r \in DOMAIN pc : create_item_commit(r)
  \/ \E r \in DOMAIN pc : create_item_refresh(r)
  \/ \E r \in DOMAIN pc : list_items(r)
  \/ \E r \in DOMAIN pc : get_item(r)
  \/ \E r \in DOMAIN pc : delete_item_lookup(r)
  \/ \E r \in DOMAIN pc : delete_item_commit(r)
  \/ \E r \in DOMAIN pc : get_db_close(r)

\* NumReq requests in flight at once.
Init == Start0(NumReq, MaxId)

Spec == Init /\ [][Next]_vars

\* One request at a time, over a longer history of the table.
InitSeq == Start0(1, MaxItems)

SpecSeq == InitSeq /\ [][Next]_vars

\* ------------------------------------------------------- a loaded pool
\* Another client's read request (list_items or get_item) runs its query on
\* a connection it checks out ...
other_query ==
  /\ CanCheckout
  /\ bgHeld' = bgHeld + 1
  /\ UNCHANGED <<pc, op, arg, conn, db_item, resp, fault, table, inserted, nextId,
                 issued, confirmed, budget>>

\* ... and its get_db closes the session, which gives the connection back.
other_close ==
  /\ bgHeld > 0
  /\ bgHeld' = bgHeld - 1
  /\ UNCHANGED <<pc, op, arg, conn, db_item, resp, fault, table, inserted, nextId,
                 issued, confirmed, budget>>

\* r's statement needs a connection, none is free, and the pool's wait
\* times out: the TimeoutError is raised inside the handler's try.
pool_timeout(r) ==
  /\ pc[r] \in {"probe", "flush", "commit", "refresh", "query", "lookup"}
  /\ ~HasConnection(r)
  /\ Raise(r, "pool", FALSE)
  /\ UNCHANGED <<op, arg, db_item, table, inserted, nextId, bgHeld, issued, confirmed,
                 budget>>

NextPool ==
  \/ Next
  \/ other_query
  \/ other_close
  \/ \E r \in DOMAIN pc : pool_timeout(r)

InitPool == Start0(1, MaxPoolItems)

SpecPool == InitPool /\ [][NextPool]_vars

\* ====================================================================
\* Properties
\* ====================================================================
Reqs == DOMAIN pc

Min(a, b) == IF a < b THEN a ELSE b
Max(a, b) == IF a > b THEN a ELSE b

Returned(r, o) == pc[r] = "close" /\ op[r] = o

NotFound == HTTPException(404, "Item not found")

\* -------------------------------------------------------------- C1
\* C1: session release.  A request that has ended holds no connection, on
\* whatever path its handler left (return, 404, 500, 422); a handler that
\* has returned holds a connection only where its path leaves the session in
\* a transaction (never after rollback or commit); and with every request
\* ended the pool has as many connections out as before the first one: none.
C1_SessionRelease ==
  /\ \A r \in Reqs : pc[r] = "idle" => ~conn[r]
  /\ (\A r \in Reqs : pc[r] = "idle") => Checkedout = 0
  /\ Checkedout <= Cardinality({r \in Reqs : pc[r] # "idle"})

\* Every request has ended; one create was answered 500 after its INSERT
\* drew an id, one create and one delete of its item went through.
C1_Witness ==
  /\ \A r \in Reqs : pc[r] = "idle"
  /\ confirmed # {}
  /\ nextId > 1 + Len(table) + Cardinality(confirmed)

\* -------------------------------------------------------------- C2
\* C2: whenever create_item ends with the 500 "Failed to create item", the
\* items table holds no row of that request (no partial commit leaks).
C2_NoPartialCommit ==
  \A r \in Reqs :
    (Returned(r, "create_item") /\ resp[r].code = 500)
      => db_item[r] \notin Ids(table)

\* -------------------------------------------------------------- C3
\* C3: health_check always answers normally, and its composite status is
\* "healthy" only when the store probe succeeded.
C3_DegradedWhenProbeFails ==
  \A r \in Reqs :
    Returned(r, "health_check")
      => /\ resp[r].code = 200
         /\ resp[r].status = "healthy" => resp[r].database = "connected"

\* -------------------------------------------------------------- C7
\* C7: every row of the items table has a name that is neither absent nor
\* empty.
C7_NameNeverEmpty ==
  \A k \in 1..Len(table) : table[k].name # Null /\ table[k].name # ""

\* -------------------------------------------------------------- C4
\* What create_item's response has to say for the input it was given.
CreatedFrom(rs, a, i) ==
  /\ Len(rs.items) = 1
  /\ rs.items[1].id = i
  /\ rs.items[1].name = a.name
  /\ rs.items[1].description = a.description

\* A get_item lookup of r that the store answers (no store failure).
GetStep(r) ==
  /\ pc[r] = "lookup" /\ op[r] = "get_item"
  /\ pc'[r] = "close" /\ fault'[r] = "none"

\* C4: round trip.  A 201 of create_item carries the id the store gave the
\* row, the input's name and the input's description (null when omitted);
\* and a get_item of that id which the store answers while the row has not
\* been deleted is a 200 with the very item the 201 carried: same id, name,
\* description and created_at.
C4_RoundTrip ==
  /\ [](\A c \in Reqs :
          (Returned(c, "create_item") /\ resp[c].code = 201)
            => CreatedFrom(resp[c], arg[c], db_item[c]))
  /\ [][\A r, c \in Reqs :
          (/\ GetStep(r)
           /\ Returned(c, "create_item") /\ resp[c].code = 201
           /\ arg[r].item_id = resp[c].items[1].id
           /\ arg[r].item_id \in Ids(table))
            => resp'[r] = Ok(200, resp[c].items)]_vars

\* create_item answered 201 for a body without description, and a get_item of
\* the returned id has answered with the same item.
C4_Witness ==
  \E r, c \in Reqs :
    /\ Returned(c, "create_item") /\ resp[c].code = 201
    /\ arg[c].description = Null /\ resp[c].items[1].description = Null
    /\ Returned(r, "get_item") /\ resp[r].code = 200
    /\ arg[r].item_id = resp[c].items[1].id
    /\ resp[r].items = resp[c].items

\* -------------------------------------------------------------- C5
\* A lookup of get_item or delete_item by r that the store answers.
LookupStep(r) ==
  /\ pc[r] = "lookup"
  /\ pc'[r] # "lookup" /\ fault'[r] = "none"

\* C5: delete is a hard delete and not-found is stable.  An id whose delete
\* was confirmed is never in the table again, and every get_item and
\* delete_item whose lookup of such an id, or of any id that is not in the
\* table, the store answers ends with 404 "Item not found" and leaves the
\* table as it is, however often it is asked.
C5_DeleteThenNotFound ==
  /\ [](confirmed \cap Ids(table) = {})
  /\ [][\A r \in Reqs :
          (/\ LookupStep(r)
           /\ \/ arg[r].item_id \in confirmed
              \/ arg[r].item_id \notin Ids(table))
            => /\ resp'[r] = NotFound
               /\ pc'[r] = "close"
               /\ table' = table]_vars

\* After a confirmed delete of an id, a delete_item and a get_item of the
\* same id have both been answered 404.
C5_Witness ==
  \E r, g \in Reqs :
    /\ Returned(r, "delete_item") /\ Returned(g, "get_item")
    /\ arg[r].item_id \in confirmed /\ arg[g].item_id = arg[r].item_id
    /\ resp[r] = NotFound /\ resp[g] = NotFound

\* -------------------------------------------------------------- C6
\* The pages list_items(0, n), list_items(n, n), ... of t, one after another.
RECURSIVE Pages(_, _, _)
Pages(t, n, skip) ==
  IF skip >= Len(t) THEN <<>>
  ELSE Page(t, skip, n) \o Pages(t, n, skip + n)

\* C6: pagination.  The table is in insertion order (ids ascending); a
\* list_items(skip, limit) the store answers returns the items at positions
\* skip+1 .. skip+limit of it, fewer when it ends; consecutive pages of any
\* size n >= 1 put together are the whole table (so none overlap, ids being
\* unique); and over 3 items with n = 2 the pages have 2 items and 1.
C6_Pagination ==
  /\ \A j, k \in 1..Len(table) : j < k => table[j].id < table[k].id
  /\ \A r \in Reqs :
       (Returned(r, "list_items") /\ fault[r] = "none")
         => LET s == arg[r].skip
                l == arg[r].limit
                b == resp[r].items
            IN /\ resp[r].code = 200
               /\ Len(b) = Max(0, Min(l, Len(table) - s))
               /\ \A k \in 1..Len(b) : b[k] = ItemResponse(table[s + k])
  /\ \A n \in 1..(MaxLimit + 1) : Pages(table, n, 0) = table
  /\ Len(table) = 3
       => Len(Page(table, 0, 2)) = 2 /\ Len(Page(table, 2, 2)) = 1

\* Over a table of 3 items, list_items(2, 2) has returned the one last item.
C6_Witness ==
  \E r \in Reqs :
    /\ Len(table) = 3
    /\ Returned(r, "list_items") /\ arg[r].skip = 2 /\ arg[r].limit = 2
    /\ resp[r].items = <<ItemResponse(table[3])>>

\* -------------------------------------------------------------- C8
\* C8: ids are unique and never reused.  No two rows of the table share an
\* id; every id in the table, in a 201 or of a confirmed delete is one the
\* sequence has already passed; and no 201 carries an id that an earlier 201
\* carried, whether or not that item has been deleted since.
C8_IdsNeverReused ==
  /\ [](/\ \A j, k \in 1..Len(table) : j # k => table[j].id # table[k].id
        /\ \A i \in Ids(table) \cup issued \cup confirmed : i < nextId)
  /\ [][\A r \in Reqs :
          (pc[r] = "refresh" /\ pc'[r] = "close" /\ resp'[r].code = 201)
            => resp'[r].items[1].id \notin issued]_vars

\* Two 201 responses with different ids have gone out, the second one after
\* the first item was deleted.
C8_Witness ==
  /\ Cardinality(issued) = 2
  /\ confirmed # {}
  /\ Ids(table) # {} /\ \A i \in Ids(table), d \in confirmed : d < i

\* -------------------------------------------------------------- C10
\* Two delete_item requests of the same id that have both returned.
BothDeleted(a, b) ==
  /\ a # b
  /\ Returned(a, "delete_item") /\ Returned(b, "delete_item")
  /\ arg[a].item_id = arg[b].item_id

\* C10 as claimed: of two concurrent delete_item requests of the same id at
\* most one returns the 200 confirmation.
C10_AtMostOneConfirmation ==
  \A a, b \in Reqs :
    BothDeleted(a, b) => ~(resp[a].code = 200 /\ resp[b].code = 200)

\* C10 as amended: the row is removed by the first commit and is not in the
\* table once either request has its confirmation; each request returns 200,
\* 404 or 500; and a request returns 404 only from its lookup and 500 only on
\* a store failure, so that two requests which both found the row and met no
\* failure both return the 200 confirmation.
C10_BothMayConfirm ==
  \A a, b \in Reqs :
    BothDeleted(a, b)
      => /\ resp[a].code \in {200, 404, 500}
         /\ resp[a].code = 200 => arg[a].item_id \notin Ids(table)
         /\ resp[a].code = 500 <=> fault[a] = "store"
         /\ resp[a].code = 200 => arg[a].item_id \in confirmed
         /\ (resp[a].code = 404 /\ resp[b].code = 200)
              => arg[a].item_id \in confirmed

\* Two delete_item requests of one id have both returned the confirmation.
C10_Witness ==
  \E a, b \in Reqs :
    /\ BothDeleted(a, b)
    /\ resp[a].code = 200 /\ resp[b].code = 200

\* -------------------------------------------------------------- C9
\* C9 as claimed: a pool wait that times out is reported to the caller as a
\* 500, whatever the handler.
C9_TimeoutIs500 ==
  \A r \in Reqs :
    (pc[r] = "close" /\ fault[r] = "pool") => resp[r].code = 500

\* C9 as amended: never more than pool_size + max_overflow = 15 connections
\* are out; a request whose pool wait timed out holds no connection, and it
\* is answered 500 by create_item, list_items, get_item and delete_item, but
\* by health_check with its normal 200 response reporting the database as
\* "disconnected".
C9_PoolCapacity ==
  /\ Checkedout <= 15
  /\ \A r \in Reqs :
       (pc[r] = "close" /\ fault[r] = "pool")
         => /\ ~conn[r]
            /\ IF op[r] = "health_check"
               THEN resp[r].code = 200 /\ resp[r].database = "disconnected"
               ELSE resp[r].code = 500
  /\ \A r \in Reqs : pc[r] = "idle" => ~conn[r]

\* With all 15 connections out, a create_item, list_items, get_item or
\* delete_item has timed out waiting and answered 500.
C9_Witness ==
  \E r \in Reqs :
    /\ Checkedout = 15
    /\ pc[r] = "close" /\ fault[r] = "pool" /\ resp[r].code = 500

====
